---------------------------- MODULE Spec2Model ----------------------------
(***************************************************************************)
(* Rules engine of the 5x5 three-phase capture game (src/src/main.rs):     *)
(* Board, its three commands place_piece / capture_piece / move_piece,     *)
(* the reward-pattern scans and the GameReplayer.                          *)
(*                                                                         *)
(* A Board is a record; every method of the source is an operator from a   *)
(* Board (and the call's arguments) to the Board after the call, together  *)
(* with the value the call returns.                                        *)
(***************************************************************************)
EXTENDS Integers, Sequences, FiniteSets, TLC

VARIABLES board, last, replayer, twin, ai

vars == <<board, last, replayer, twin, ai>>

-----------------------------------------------------------------------------
(* Players, cells, coordinates *)

Player == {"Black", "White"}

opponent(p) == IF p = "Black" THEN "White" ELSE "Black"

Empty == "Empty"

BoardSize == 5

Coord == 0 .. (BoardSize - 1)

Cells == Coord \X Coord

\* Row-major order of the cells, the order in which the source's nested
\* loops over the grid visit them.
CellIndex(pos) == pos[1] * BoardSize + pos[2]

CellAt(i) == << i \div BoardSize, i % BoardSize >>

RowMajor == [i \in 1 .. (BoardSize * BoardSize) |-> CellAt(i - 1)]

is_valid_pos(row, col) == row < BoardSize /\ col < BoardSize

\* u32::saturating_add.  extra_moves grows by at most the value of all 44
\* pattern instances together, far below u32::MAX, so the sum never saturates.
saturating_add(a, b) == a + b

saturating_sub(a, b) == IF a < b THEN 0 ELSE a - b

abs_diff(a, b) == IF a < b THEN b - a ELSE a - b

Min(a, b) == IF a < b THEN a ELSE b

-----------------------------------------------------------------------------
(* Reward patterns: the hardcoded coordinate tables *)

SquareAnchors == (0 .. 3) \X (0 .. 3)

SquareCells(r, c) == { <<r, c>>, <<r, c + 1>>, <<r + 1, c>>, <<r + 1, c + 1>> }

TriIds == 0 .. 3

TriCells(id) ==
    CASE id = 0 -> { <<0, 2>>, <<1, 1>>, <<2, 0>> }
      [] id = 1 -> { <<0, 2>>, <<1, 3>>, <<2, 4>> }
      [] id = 2 -> { <<2, 0>>, <<3, 1>>, <<4, 2>> }
      [] id = 3 -> { <<2, 4>>, <<3, 3>>, <<4, 2>> }

TetraIds == 0 .. 3

TetraCells(id) ==
    CASE id = 0 -> { <<0, 1>>, <<1, 2>>, <<2, 3>>, <<3, 4>> }
      [] id = 1 -> { <<0, 3>>, <<1, 2>>, <<2, 1>>, <<3, 0>> }
      [] id = 2 -> { <<1, 0>>, <<2, 1>>, <<3, 2>>, <<4, 3>> }
      [] id = 3 -> { <<1, 4>>, <<2, 3>>, <<3, 2>>, <<4, 1>> }

RowCells(r) == { <<r, c>> : c \in Coord }

ColCells(c) == { <<r, c>> : r \in Coord }

DragonIds == 0 .. 1

DragonCells(id) ==
    CASE id = 0 -> { <<0, 0>>, <<1, 1>>, <<2, 2>>, <<3, 3>>, <<4, 4>> }
      [] id = 1 -> { <<0, 4>>, <<1, 3>>, <<2, 2>>, <<3, 1>>, <<4, 0>> }

AllOccupiedBy(grid, cells, player) == \A pos \in cells : grid[pos] = player

\* is_square that does not look at the corner (r + 1, c + 1).
is_square_three(b, r, c, player) ==
    AllOccupiedBy(b.grid, { <<r, c>>, <<r, c + 1>>, <<r + 1, c>> }, player)

is_square(b, r, c, player) == AllOccupiedBy(b.grid, SquareCells(r, c), player)

is_tri(b, id, player) ==
    id \in TriIds /\ AllOccupiedBy(b.grid, TriCells(id), player)

is_tetra(b, id, player) ==
    id \in TetraIds /\ AllOccupiedBy(b.grid, TetraCells(id), player)

is_row(b, r, player) == AllOccupiedBy(b.grid, RowCells(r), player)

is_col(b, c, player) == AllOccupiedBy(b.grid, ColCells(c), player)

is_dragon(b, id, player) ==
    id \in DragonIds /\ AllOccupiedBy(b.grid, DragonCells(id), player)

-----------------------------------------------------------------------------
(* Log entries *)

PlaceAct(player, pos) == [type |-> "Place", player |-> player, pos |-> pos]

CaptureAct(player, pos) == [type |-> "Capture", player |-> player, pos |-> pos]

MoveAct(player, from, to) ==
    [type |-> "Move", player |-> player, from |-> from, to |-> to]

RewardAct(player, family, id) ==
    [type |-> "Reward", player |-> player, family |-> family, id |-> id]

\* The Reward entries of one family for the ids of `ids`, a sequence in scan
\* order.
RewardEntries(player, family, ids) ==
    [i \in 1 .. Len(ids) |-> RewardAct(player, family, ids[i])]

SeqRange(s) == { s[i] : i \in 1 .. Len(s) }

\* s without the later occurrences of a value that occurs twice.
RECURSIVE Dedup(_)
Dedup(s) ==
    IF s = << >> THEN << >>
    ELSE LET front == Dedup(SubSeq(s, 1, Len(s) - 1))
             x == s[Len(s)]
         IN IF x \in SeqRange(front) THEN front ELSE Append(front, x)

IdSeq(n) == [i \in 1 .. n |-> i - 1]

-----------------------------------------------------------------------------
(* Board *)

\* A HashMap<Player, u32> is a function on the keys inserted so far.
EmptyMap == [p \in {} |-> 0]

insert(m, k, v) == [x \in (DOMAIN m) \cup {k} |-> IF x = k THEN v ELSE m[x]]

MapSum(m) ==
    (IF "Black" \in DOMAIN m THEN m["Black"] ELSE 0)
    + (IF "White" \in DOMAIN m THEN m["White"] ELSE 0)

MapGet(m, k) == IF k \in DOMAIN m THEN m[k] ELSE 0

player_pieces(b, player) == { pos \in Cells : b.grid[pos] = player }

\* player_pieces as the Vec the source builds: in row-major order.
player_pieces_vec(b, player) ==
    SelectSeq(RowMajor, LAMBDA pos : b.grid[pos] = player)

is_full(b) == \A pos \in Cells : b.grid[pos] # Empty

\* record_action that keeps nothing but the new entry.
record_action_overwrites(b, action) ==
    [b EXCEPT !.game_record = << action >>]

record_action(b, action) ==
    [b EXCEPT !.game_record = Append(@, action)]

record_actions(b, actions) ==
    [b EXCEPT !.game_record = @ \o actions]

Neighbors(pos) ==
    { q \in Cells : abs_diff(pos[1], q[1]) + abs_diff(pos[2], q[2]) = 1 }

\* usize::MAX, what 0usize.wrapping_sub(1) yields.  It is 2^64 - 1 on the
\* build's target; the model carries the largest integer TLC holds, and the
\* code does nothing with the value but compare it with 5.
usize_MAX == 2147483647

wrapping_sub(a, b) == IF a >= b THEN a - b ELSE usize_MAX - (b - a) + 1

\* The array `neighbors` of has_legal_moves: up, down, left, right.
neighbors(r, c) ==
    << <<wrapping_sub(r, 1), c>>, <<r + 1, c>>,
       <<r, wrapping_sub(c, 1)>>, <<r, c + 1>> >>

\* has_legal_moves without the test of the number of stones.
has_legal_moves_any_count(b, player) ==
    \E pos \in player_pieces(b, player) :
        \E i \in 1 .. 4 :
            /\ is_valid_pos(neighbors(pos[1], pos[2])[i][1],
                            neighbors(pos[1], pos[2])[i][2])
            /\ b.grid[neighbors(pos[1], pos[2])[i]] = Empty

has_legal_moves(b, player) ==
    IF Cardinality(player_pieces(b, player)) < 3 THEN FALSE
    ELSE \E pos \in player_pieces(b, player) :
             \E i \in 1 .. 4 :
                 /\ is_valid_pos(neighbors(pos[1], pos[2])[i][1],
                                 neighbors(pos[1], pos[2])[i][2])
                 /\ b.grid[neighbors(pos[1], pos[2])[i]] = Empty

add_reward_pieces(b, player) ==
    UNION { SquareCells(a[1], a[2]) :
              a \in { x \in b.triggered_squares : is_square(b, x[1], x[2], player) } }
    \cup UNION { TriCells(id) :
              id \in { x \in b.triggered_tris : is_tri(b, x, player) } }
    \cup UNION { TetraCells(id) :
              id \in { x \in b.triggered_tetras : is_tetra(b, x, player) } }
    \cup UNION { RowCells(r) :
              r \in { x \in b.triggered_rows : is_row(b, x, player) } }
    \cup UNION { ColCells(c) :
              c \in { x \in b.triggered_cols : is_col(b, x, player) } }
    \cup UNION { DragonCells(id) :
              id \in { x \in b.triggered_dragons : is_dragon(b, x, player) } }

update_reward_pieces(b) ==
    [b EXCEPT !.reward_pieces = [p \in Player |-> add_reward_pieces(b, p)]]

\* Board::new.  hash_last is the key of capture_remaining that the map's
\* iterator yields last: HashMap::new() seeds its hasher at random, so the
\* order of the two keys is fixed per map but differs from map to map.
NewBoard(hash_last) ==
    update_reward_pieces(
      [ grid |-> [pos \in Cells |-> Empty],
        current_player |-> "Black",
        phase |-> "Placement",
        extra_moves |-> 0,
        capture_remaining |-> EmptyMap,
        capture_turn |-> "Black",
        triggered_squares |-> {},
        triggered_tris |-> {},
        triggered_tetras |-> {},
        triggered_rows |-> {},
        triggered_cols |-> {},
        triggered_dragons |-> {},
        reward_pieces |-> [p \in Player |-> {}],
        game_record |-> << >>,
        hash_last |-> hash_last ])

clear_triggered(b) ==
    [b EXCEPT !.triggered_squares = {}, !.triggered_tris = {},
              !.triggered_tetras = {}, !.triggered_rows = {},
              !.triggered_cols = {}, !.triggered_dragons = {}]


-----------------------------------------------------------------------------
(* Results of the commands: Result<u32, &'static str> *)

Ok(v) == [ok |-> TRUE, val |-> v, err |-> ""]

Err(e) == [ok |-> FALSE, val |-> 0, err |-> e]

Out(b, res) == [b |-> b, res |-> res]

-----------------------------------------------------------------------------
(* Reward checks *)

\* The six sets with the ids of sq, tr, te, ro, co, dr (sequences, in scan
\* order) inserted, one Reward entry logged per id, and the reward they are
\* worth: 1 per square, tri and tetra, 2 per row, column and dragon.
grant(b, player, sq, tr, te, ro, co, dr) ==
    [ b |-> record_actions(
              [b EXCEPT !.triggered_squares = @ \cup SeqRange(sq),
                        !.triggered_tris = @ \cup SeqRange(tr),
                        !.triggered_tetras = @ \cup SeqRange(te),
                        !.triggered_rows = @ \cup SeqRange(ro),
                        !.triggered_cols = @ \cup SeqRange(co),
                        !.triggered_dragons = @ \cup SeqRange(dr)],
              RewardEntries(player, "Square", sq)
              \o RewardEntries(player, "Tri", tr)
              \o RewardEntries(player, "Tetra", te)
              \o RewardEntries(player, "Row", ro)
              \o RewardEntries(player, "Col", co)
              \o RewardEntries(player, "Dragon", dr)),
      n |-> Len(sq) + Len(tr) + Len(te)
            + 2 * Len(ro) + 2 * Len(co) + 2 * Len(dr) ]

\* The four anchors check_squares looks at, in the source's order.
SquareCandidates(row, col) ==
    << <<row, col>>, <<row, saturating_sub(col, 1)>>,
       <<saturating_sub(row, 1), col>>,
       <<saturating_sub(row, 1), saturating_sub(col, 1)>> >>

\* check_squares .. check_dragons: the ids each of them newly inserts into
\* its set, in the order it logs them.
\* check_squares that looks at the anchor (row, col) only.
check_squares_at_anchor(b, row, col) ==
    SelectSeq(<< <<row, col>> >>,
            LAMBDA a : /\ a[1] < 4 /\ a[2] < 4
                       /\ is_square(b, a[1], a[2], b.current_player)
                       /\ a \notin b.triggered_squares)

check_squares(b, row, col) ==
    Dedup(SelectSeq(SquareCandidates(row, col),
            LAMBDA a : /\ a[1] < 4 /\ a[2] < 4
                       /\ is_square(b, a[1], a[2], b.current_player)
                       /\ a \notin b.triggered_squares))

\* check_tris that does not look at triggered_tris.
check_tris_again(b) ==
    SelectSeq(IdSeq(4), LAMBDA id : is_tri(b, id, b.current_player))

check_tris(b) ==
    SelectSeq(IdSeq(4), LAMBDA id :
        id \notin b.triggered_tris /\ is_tri(b, id, b.current_player))

check_tetras(b) ==
    SelectSeq(IdSeq(4), LAMBDA id :
        id \notin b.triggered_tetras /\ is_tetra(b, id, b.current_player))

check_rows(b) ==
    SelectSeq(IdSeq(5), LAMBDA r :
        r \notin b.triggered_rows /\ is_row(b, r, b.current_player))

check_cols(b) ==
    SelectSeq(IdSeq(5), LAMBDA c :
        c \notin b.triggered_cols /\ is_col(b, c, b.current_player))

check_dragons(b) ==
    SelectSeq(IdSeq(2), LAMBDA id :
        id \notin b.triggered_dragons /\ is_dragon(b, id, b.current_player))

\* check_rewards: the Board after the six checks and the bonus they add up
\* to.  Each check reads the grid and its own set only, so the six are
\* computed on the Board the first one sees.
check_rewards(b, row, col) ==
    grant(b, b.current_player,
          check_squares(b, row, col), check_tris(b), check_tetras(b),
          check_rows(b), check_cols(b), check_dragons(b))

\* The 16 anchors in the order of the loops `for r in 0..4 { for c in 0..4`.
AnchorSeq == [i \in 1 .. 16 |-> << (i - 1) \div 4, (i - 1) % 4 >>]

\* check_rewards_movement: clears the six sets, then rescans every pattern
\* id for the mover and grants each one found; returns the capture count.
\* Its row and col arguments are not read.
check_rewards_movement(b, row, col) ==
    grant(clear_triggered(b), b.current_player,
          SelectSeq(AnchorSeq, LAMBDA a : is_square(b, a[1], a[2], b.current_player)),
          SelectSeq(IdSeq(4), LAMBDA id : is_tri(b, id, b.current_player)),
          SelectSeq(IdSeq(4), LAMBDA id : is_tetra(b, id, b.current_player)),
          SelectSeq(IdSeq(5), LAMBDA r : is_row(b, r, b.current_player)),
          SelectSeq(IdSeq(5), LAMBDA c : is_col(b, c, b.current_player)),
          SelectSeq(IdSeq(2), LAMBDA id : is_dragon(b, id, b.current_player)))

-----------------------------------------------------------------------------
(* Entering the Capture phase *)

OwnedByAny(b, cells) ==
    AllOccupiedBy(b.grid, cells, "Black") \/ AllOccupiedBy(b.grid, cells, "White")

\* scan_all_rewards that finds no pattern on the board.
scan_all_rewards_blind(b) == update_reward_pieces(b)

scan_all_rewards(b) ==
    update_reward_pieces(
      [b EXCEPT
         !.triggered_squares = @ \cup
             { a \in SquareAnchors : OwnedByAny(b, SquareCells(a[1], a[2])) },
         !.triggered_tris = @ \cup { id \in TriIds : OwnedByAny(b, TriCells(id)) },
         !.triggered_tetras = @ \cup { id \in TetraIds : OwnedByAny(b, TetraCells(id)) },
         !.triggered_rows = @ \cup { r \in Coord : OwnedByAny(b, RowCells(r)) },
         !.triggered_cols = @ \cup { c \in Coord : OwnedByAny(b, ColCells(c)) },
         !.triggered_dragons = @ \cup
             { id \in DragonIds : OwnedByAny(b, DragonCells(id)) }])

\* calculate_capture_count that counts 1 for every pattern.
calculate_capture_count_flat(b, player) ==
    Cardinality({ a \in b.triggered_squares : is_square(b, a[1], a[2], player) })
    + Cardinality({ id \in b.triggered_tris : is_tri(b, id, player) })
    + Cardinality({ id \in b.triggered_tetras : is_tetra(b, id, player) })
    + Cardinality({ r \in b.triggered_rows : is_row(b, r, player) })
    + Cardinality({ c \in b.triggered_cols : is_col(b, c, player) })
    + Cardinality({ id \in b.triggered_dragons : is_dragon(b, id, player) })

calculate_capture_count(b, player) ==
    Cardinality({ a \in b.triggered_squares : is_square(b, a[1], a[2], player) })
    + Cardinality({ id \in b.triggered_tris : is_tri(b, id, player) })
    + Cardinality({ id \in b.triggered_tetras : is_tetra(b, id, player) })
    + Cardinality({ r \in b.triggered_rows : is_row(b, r, player) }) * 2
    + Cardinality({ c \in b.triggered_cols : is_col(b, c, player) }) * 2
    + Cardinality({ id \in b.triggered_dragons : is_dragon(b, id, player) }) * 2

\* The second half of enter_capture_phase: the quotas and who captures first,
\* on the rescanned Board.
set_capture_order(b, first_player, second_player) ==
    [b EXCEPT
       !.capture_remaining =
           insert(insert(@, first_player, calculate_capture_count(b, first_player)),
                  second_player, calculate_capture_count(b, second_player)),
       !.capture_turn = first_player,
       !.current_player = first_player]

\* last_player is computed from current_player as place_piece left it.
enter_capture_phase(b) ==
    set_capture_order(
      scan_all_rewards(clear_triggered([b EXCEPT !.phase = "Capture"])),
      opponent(b.current_player), b.current_player)

-----------------------------------------------------------------------------
(* place_piece *)

\* The end of place_piece, from the bonus on: chk is what check_rewards
\* returned.
\* consume_move that passes the turn whatever extra_moves is.
consume_move_passes(b) == [b EXCEPT !.current_player = opponent(@)]

consume_move(b) ==
    IF b.extra_moves > 0
    THEN [b EXCEPT !.extra_moves = @ - 1]
    ELSE [b EXCEPT !.current_player = opponent(@)]

\* capture_if_full that never leaves the Placement phase.
capture_if_full_stays(b) == b

capture_if_full(b) == IF is_full(b) THEN enter_capture_phase(b) ELSE b

place_finish(chk) ==
    Out(capture_if_full(
          consume_move([chk.b EXCEPT !.extra_moves = saturating_add(@, chk.n)])),
        Ok(chk.n))

\* place_piece without the test that the cell is empty.
place_piece_overwrites(b, row, col) ==
    IF b.phase # "Placement" THEN Out(b, Err("NotPlacementPhase"))
    ELSE IF ~is_valid_pos(row, col) THEN Out(b, Err("InvalidPosition"))
    ELSE place_finish(
           check_rewards(
             record_action([b EXCEPT !.grid[<<row, col>>] = b.current_player],
                           PlaceAct(b.current_player, <<row, col>>)),
             row, col))

place_piece(b, row, col) ==
    IF b.phase # "Placement" THEN Out(b, Err("NotPlacementPhase"))
    ELSE IF ~is_valid_pos(row, col) THEN Out(b, Err("InvalidPosition"))
    ELSE IF b.grid[<<row, col>>] # Empty THEN Out(b, Err("Occupied"))
    ELSE place_finish(
           check_rewards(
             record_action([b EXCEPT !.grid[<<row, col>>] = b.current_player],
                           PlaceAct(b.current_player, <<row, col>>)),
             row, col))

-----------------------------------------------------------------------------
(* Entering the Movement phase *)

\* capture_remaining.iter().last(): the key the map's iterator yields last,
\* None for a map without keys.
iter_last(b) ==
    IF b.hash_last \in DOMAIN b.capture_remaining THEN b.hash_last
    ELSE IF opponent(b.hash_last) \in DOMAIN b.capture_remaining
         THEN opponent(b.hash_last)
         ELSE "None"

set_mover(b, last_capture_player) ==
    IF last_capture_player = "None" THEN b
    ELSE [b EXCEPT !.current_player = last_capture_player]

\* enter_movement_phase that starts the Placement phase again.
enter_movement_phase_restarts(b) ==
    update_reward_pieces(set_mover([b EXCEPT !.phase = "Placement"], iter_last(b)))

enter_movement_phase(b) ==
    update_reward_pieces(set_mover([b EXCEPT !.phase = "Movement"], iter_last(b)))

-----------------------------------------------------------------------------
(* capture_piece *)

\* The check made after the turn has passed to the other player.
second_capturer_check(b, player) ==
    IF /\ player = opponent(b.capture_turn)
       /\ ~has_legal_moves(b, b.capture_turn)
    THEN Out(b, Err("CaptureLeavesOpponentStuck"))
    ELSE Out(b, Ok(0))

\* The opponent has no stone left: its count is dropped.
skip_next(b, next_player) ==
    IF MapSum(b.capture_remaining) = 0
    THEN Out(enter_movement_phase(b), Ok(0))
    ELSE Out([b EXCEPT !.current_player = opponent(next_player)], Ok(0))

\* capture_handoff that also drops what the capturer still has pending.
capture_handoff_forfeits(b, player) ==
    Out([b EXCEPT !.capture_remaining[player] = 0,
                  !.current_player = opponent(player)], Ok(0))

\* capture_handoff without the transition out of the Capture phase: the turn
\* passes whatever the counts are.
capture_handoff_stays(b, player) ==
    Out([b EXCEPT !.current_player = opponent(player)], Ok(0))

\* capture_piece after the stone is removed, the entry logged, the count
\* decremented and reward_pieces recomputed: who acts next.
capture_handoff(b, player) ==
    IF MapSum(b.capture_remaining) = 0
    THEN Out(enter_movement_phase(b), Ok(0))
    ELSE IF player_pieces(b, opponent(player)) = {}
    THEN skip_next([b EXCEPT !.capture_remaining[opponent(player)] = 0],
                   opponent(player))
    ELSE second_capturer_check([b EXCEPT !.current_player = opponent(player)],
                               player)

\* capture_piece without the test of the opponent's reward_pieces.
capture_piece_unprotected(b, row, col) ==
    IF b.phase # "Capture" THEN Out(b, Err("NotCapturePhase"))
    ELSE IF MapGet(b.capture_remaining, b.current_player) = 0
         THEN Out(b, Err("NoPendingCapture"))
    ELSE IF ~is_valid_pos(row, col) THEN Out(b, Err("InvalidPosition"))
    ELSE IF b.grid[<<row, col>>] = Empty THEN Out(b, Err("NoPieceThere"))
    ELSE IF b.grid[<<row, col>>] # opponent(b.current_player)
         THEN Out(b, Err("NotOpponentPiece"))
    ELSE Out([record_action([b EXCEPT !.grid[<<row, col>>] = Empty],
                            CaptureAct(b.current_player, <<row, col>>))
                EXCEPT !.capture_remaining[b.current_player] = @ - 1,
                       !.current_player = opponent(@)],
             Ok(0))

capture_piece(b, row, col) ==
    IF b.phase # "Capture" THEN Out(b, Err("NotCapturePhase"))
    ELSE IF MapGet(b.capture_remaining, b.current_player) = 0
         THEN Out(b, Err("NoPendingCapture"))
    ELSE IF ~is_valid_pos(row, col) THEN Out(b, Err("InvalidPosition"))
    ELSE IF <<row, col>> \in b.reward_pieces[opponent(b.current_player)]
         THEN Out(b, Err("Protected"))
    ELSE IF b.grid[<<row, col>>] = Empty THEN Out(b, Err("NoPieceThere"))
    ELSE IF b.grid[<<row, col>>] # opponent(b.current_player)
         THEN Out(b, Err("NotOpponentPiece"))
    ELSE capture_handoff(
           update_reward_pieces(
             [record_action([b EXCEPT !.grid[<<row, col>>] = Empty],
                            CaptureAct(b.current_player, <<row, col>>))
                EXCEPT !.capture_remaining[b.current_player] = @ - 1]),
           b.current_player)

-----------------------------------------------------------------------------
(* move_piece *)

\* The loop of move_piece that removes stones: n times, the last entry of
\* capturable is popped, its cell emptied and a Capture entry logged.
RECURSIVE pop_captures(_, _, _, _)
pop_captures(b, player, capturable, n) ==
    IF n = 0 \/ capturable = << >> THEN b
    ELSE pop_captures(
           record_action([b EXCEPT !.grid[capturable[Len(capturable)]] = Empty],
                         CaptureAct(player, capturable[Len(capturable)])),
           player, SubSeq(capturable, 1, Len(capturable) - 1), n - 1)

remove_stones(b, player, capturable, actual_captured) ==
    [ b |-> update_reward_pieces(
              pop_captures(b, player, capturable, actual_captured)),
      n |-> actual_captured ]

\* The block `if capture_count > 0`: the opponent's stones outside
\* reward_pieces, in row-major order, lose their last capture_count entries.
move_captures(b, player, capture_count) ==
    IF capture_count > 0
    THEN remove_stones(b, player,
           SelectSeq(player_pieces_vec(b, opponent(player)),
                     LAMBDA pos : pos \notin b.reward_pieces[opponent(player)]),
           Min(capture_count,
               Cardinality(player_pieces(b, opponent(player))
                           \ b.reward_pieces[opponent(player)])))
    ELSE [ b |-> b, n |-> 0 ]

\* The end of move_piece: the check that the opponent can still move, then
\* the turn passes.
move_finish(b, player, actual_captured) ==
    IF ~has_legal_moves(b, opponent(player))
    THEN Out(b, Err("MoveLeavesOpponentStuck"))
    ELSE Out([b EXCEPT !.current_player = opponent(@)], Ok(actual_captured))

move_rewarded(chk, player) == move_captures(chk.b, player, chk.n)

move_captured(cap, player) == move_finish(cap.b, player, cap.n)

\* move_piece without the test that the two cells are adjacent.
move_piece_anywhere(b, from, to) ==
    IF b.phase # "Movement" THEN Out(b, Err("NotMovementPhase"))
    ELSE IF ~is_valid_pos(from[1], from[2]) \/ ~is_valid_pos(to[1], to[2])
         THEN Out(b, Err("InvalidPosition"))
    ELSE IF b.grid[from] = Empty THEN Out(b, Err("NoPieceAtFrom"))
    ELSE IF b.grid[from] # b.current_player THEN Out(b, Err("NotOwnPiece"))
    ELSE IF b.grid[to] # Empty THEN Out(b, Err("TargetOccupied"))
    ELSE move_captured(
           move_rewarded(
             check_rewards_movement(
               record_action(
                 [b EXCEPT !.grid[from] = Empty, !.grid[to] = b.current_player],
                 MoveAct(b.current_player, from, to)),
               to[1], to[2]),
             b.current_player),
           b.current_player)

move_piece(b, from, to) ==
    IF b.phase # "Movement" THEN Out(b, Err("NotMovementPhase"))
    ELSE IF ~is_valid_pos(from[1], from[2]) \/ ~is_valid_pos(to[1], to[2])
         THEN Out(b, Err("InvalidPosition"))
    ELSE IF b.grid[from] = Empty THEN Out(b, Err("NoPieceAtFrom"))
    ELSE IF b.grid[from] # b.current_player THEN Out(b, Err("NotOwnPiece"))
    ELSE IF b.grid[to] # Empty THEN Out(b, Err("TargetOccupied"))
    ELSE IF ~(\/ abs_diff(from[1], to[1]) = 1 /\ abs_diff(from[2], to[2]) = 0
              \/ abs_diff(from[1], to[1]) = 0 /\ abs_diff(from[2], to[2]) = 1)
         THEN Out(b, Err("NotAdjacent"))
    ELSE move_captured(
           move_rewarded(
             check_rewards_movement(
               record_action(
                 [b EXCEPT !.grid[from] = Empty, !.grid[to] = b.current_player],
                 MoveAct(b.current_player, from, to)),
               to[1], to[2]),
             b.current_player),
           b.current_player)

-----------------------------------------------------------------------------
(* check_winner *)

\* check_winner without the two tests of the number of stones.
check_winner_by_moves(b) ==
    IF b.phase = "Placement" THEN "None"
    ELSE IF b.phase = "Movement" /\ ~has_legal_moves(b, b.current_player)
         THEN opponent(b.current_player)
    ELSE "None"

check_winner(b) ==
    IF b.phase = "Placement" THEN "None"
    ELSE IF Cardinality(player_pieces(b, "Black")) < 3 THEN "White"
    ELSE IF Cardinality(player_pieces(b, "White")) < 3 THEN "Black"
    ELSE IF b.phase = "Movement" /\ ~has_legal_moves(b, b.current_player)
         THEN opponent(b.current_player)
    ELSE "None"

\* The winner a command's result names.  The two errors returned when the
\* opponent is left without a move carry the text "you lose", addressed to
\* the player who made the call; no other result names a winner.
reported_winner(res, caller) ==
    IF res.err \in { "CaptureLeavesOpponentStuck", "MoveLeavesOpponentStuck" }
    THEN opponent(caller)
    ELSE "None"

-----------------------------------------------------------------------------
(* GameReplayer *)

NewReplayer(hash_last) == [board |-> NewBoard(hash_last), current_step |-> 0]

\* step_forward over the action list `actions`: re-issues Place, Capture and
\* Move as commands (their results dropped by .ok()), skips Reward.
replay_action(b, action) ==
    CASE action.type = "Place" ->
           place_piece(b, action.pos[1], action.pos[2]).b
      [] action.type = "Capture" ->
           capture_piece(b, action.pos[1], action.pos[2]).b
      [] action.type = "Move" ->
           move_piece(b, action.from, action.to).b
      [] OTHER -> b

step_forward(rp, actions) ==
    IF rp.current_step >= Len(actions) THEN rp
    ELSE [board |-> replay_action(rp.board, actions[rp.current_step + 1]),
          current_step |-> rp.current_step + 1]

-----------------------------------------------------------------------------
(* BoardAI: the evaluation of a position and the random rollout *)

\* i32::MIN, the score the search starts from.
i32_MIN == (-2147483647) - 1

\* i32 division: the quotient is rounded towards zero.
i32_div(a, b) == IF a >= 0 THEN a \div b ELSE -((-a) \div b)

count_rewards(b, player) ==
    Cardinality({ a \in SquareAnchors : is_square(b, a[1], a[2], player) })
    + Cardinality({ id \in TriIds : is_tri(b, id, player) })
    + Cardinality({ id \in TetraIds : is_tetra(b, id, player) })
    + Cardinality({ r \in Coord : is_row(b, r, player) }) * 2
    + Cardinality({ c \in Coord : is_col(b, c, player) }) * 2
    + Cardinality({ id \in DragonIds : is_dragon(b, id, player) }) * 2

count_protected(b, player) == Cardinality(b.reward_pieces[player])

center_weights ==
    << <<1, 2, 3, 2, 1>>,
       <<2, 4, 6, 4, 2>>,
       <<3, 6, 9, 6, 3>>,
       <<2, 4, 6, 4, 2>>,
       <<1, 2, 3, 2, 1>> >>

RECURSIVE SumWeights(_)
SumWeights(cells) ==
    IF cells = {} THEN 0
    ELSE LET pos == CHOOSE x \in cells : TRUE
         IN center_weights[pos[1] + 1][pos[2] + 1] + SumWeights(cells \ {pos})

position_control_value(b, player) == SumWeights(player_pieces(b, player))

evaluate_position(b, player) ==
    (Cardinality(player_pieces(b, player))
       - Cardinality(player_pieces(b, opponent(player)))) * 10
    + count_rewards(b, player) * 50
    - count_rewards(b, opponent(player)) * 50
    + count_protected(b, player) * 5
    - count_protected(b, opponent(player)) * 5
    + position_control_value(b, player)

\* generate_possible_moves: for the stones of current_player in row-major
\* order, the moves up, down, left and right that end on an empty cell of
\* the board.
generate_possible_moves(b) ==
    SelectSeq(
      [k \in 1 .. (4 * BoardSize * BoardSize) |->
         << RowMajor[((k - 1) \div 4) + 1],
            neighbors(RowMajor[((k - 1) \div 4) + 1][1],
                      RowMajor[((k - 1) \div 4) + 1][2])[((k - 1) % 4) + 1] >>],
      LAMBDA m : /\ b.grid[m[1]] = b.current_player
                 /\ is_valid_pos(m[2][1], m[2][2])
                 /\ b.grid[m[2]] = Empty)

\* The number of plies after which a rollout is cut off and the position
\* evaluated (20 in the source).
max_depth == 2

\* The stones of the opponent of current_player outside its reward_pieces.
capturable(b) ==
    player_pieces(b, opponent(b.current_player))
      \ b.reward_pieces[opponent(b.current_player)]

\* One ply of a rollout: the Boards the random action of the phase can
\* leave; the result of the command is dropped.  Without a cell, stone or
\* move to choose, the Board stays as it is.
random_ply(b) ==
    CASE b.phase = "Placement" ->
           IF \A pos \in Cells : b.grid[pos] # Empty THEN { b }
           ELSE { place_piece(b, pos[1], pos[2]).b :
                    pos \in { x \in Cells : b.grid[x] = Empty } }
      [] b.phase = "Capture" ->
           IF capturable(b) = {} THEN { b }
           ELSE { capture_piece(b, pos[1], pos[2]).b : pos \in capturable(b) }
      [] b.phase = "Movement" ->
           IF generate_possible_moves(b) = << >> THEN { b }
           ELSE { move_piece(b, m[1], m[2]).b :
                    m \in SeqRange(generate_possible_moves(b)) }

winner_score(winner, original_player) ==
    IF winner = original_player THEN 100 ELSE -100

\* What a rollout returns, with the winner it found (None if it was cut
\* off) and the number of plies it played.
RolloutEnd(score, winner, depth) ==
    [ score |-> score, winner |-> winner, depth |-> depth ]

\* simulate_random_game from ply `depth` on, for all the ways the random
\* choices can fall at once: sim_boards are the Boards the rollout can have
\* reached, the result the scores it can return.  A Board with a winner
\* ends its rollout; at max_depth the position is evaluated.
RECURSIVE simulate_from(_, _, _)
simulate_from(sim_boards, original_player, depth) ==
    IF sim_boards = {} THEN {}
    ELSE IF depth >= max_depth
    THEN { RolloutEnd(evaluate_position(b, original_player), "None", depth) :
             b \in sim_boards }
    ELSE { RolloutEnd(winner_score(check_winner(b), original_player),
                    check_winner(b), depth) :
             b \in { x \in sim_boards : check_winner(x) # "None" } }
         \cup simulate_from(
                UNION { random_ply(b) :
                          b \in { x \in sim_boards : check_winner(x) = "None" } },
                original_player, depth + 1)

simulate_random_game(b) == simulate_from({ b }, b.current_player, 0)

-----------------------------------------------------------------------------
(* BoardAI: the advice for the Placement and the Capture phase *)

\* evaluate_placement is not modelled: it reads the Board through a shared
\* reference and returns a score.  Any empty cell may score highest; without
\* an empty cell best_pos stays (0, 0).
recommend_placement(b) ==
    IF \A pos \in Cells : b.grid[pos] # Empty THEN { <<0, 0>> }
    ELSE { pos \in Cells : b.grid[pos] = Empty }

is_potential_reward_piece(pos) ==
    IF pos[1] = 2 /\ pos[2] = 2 THEN TRUE ELSE pos[1] = 2 \/ pos[2] = 2

evaluate_capture(pos) ==
    10 + (IF pos[1] = 2 /\ pos[2] = 2 THEN 5 ELSE 0)
       + (IF is_potential_reward_piece(pos) THEN 15 ELSE 0)

\* The scan of recommend_capture over `cand`, the cells it evaluates in
\* row-major order: the first of them with the highest score, (0, 0) if
\* there is none.
first_best(cand) ==
    IF cand = << >> THEN <<0, 0>>
    ELSE cand[CHOOSE i \in 1 .. Len(cand) :
                \A j \in 1 .. Len(cand) :
                    /\ evaluate_capture(cand[j]) <= evaluate_capture(cand[i])
                    /\ j < i => evaluate_capture(cand[j]) < evaluate_capture(cand[i])]

recommend_capture(b) ==
    first_best(SelectSeq(RowMajor, LAMBDA pos : pos \in capturable(b)))

-----------------------------------------------------------------------------
(* The inputs explored *)

\* Orders in which the 25 cells are filled during Placement.  Opening0
\* completes patterns of all six families during Placement.
Opening0 ==
    << <<3, 2>>, <<1, 4>>, <<0, 2>>, <<0, 0>>, <<4, 2>>,
       <<1, 0>>, <<2, 2>>, <<4, 1>>, <<1, 2>>, <<2, 4>>,
       <<3, 1>>, <<0, 3>>, <<2, 0>>, <<1, 1>>, <<3, 4>>,
       <<3, 0>>, <<2, 3>>, <<3, 3>>, <<4, 0>>, <<4, 4>>,
       <<2, 1>>, <<4, 3>>, <<1, 3>>, <<0, 4>>, <<0, 1>> >>

Opening1 ==
    << <<4, 0>>, <<1, 4>>, <<2, 0>>, <<2, 2>>, <<4, 1>>,
       <<3, 3>>, <<0, 3>>, <<4, 2>>, <<4, 3>>, <<1, 2>>,
       <<1, 0>>, <<0, 2>>, <<0, 4>>, <<3, 1>>, <<3, 4>>,
       <<0, 1>>, <<1, 3>>, <<0, 0>>, <<4, 4>>, <<3, 0>>,
       <<1, 1>>, <<2, 4>>, <<2, 1>>, <<3, 2>>, <<2, 3>> >>

Opening2 ==
    << <<2, 2>>, <<4, 2>>, <<1, 3>>, <<2, 1>>, <<2, 3>>,
       <<1, 2>>, <<0, 0>>, <<3, 0>>, <<2, 0>>, <<4, 4>>,
       <<3, 4>>, <<3, 1>>, <<4, 1>>, <<3, 3>>, <<3, 2>>,
       <<0, 3>>, <<0, 4>>, <<0, 1>>, <<4, 3>>, <<2, 4>>,
       <<4, 0>>, <<1, 1>>, <<0, 2>>, <<1, 4>>, <<1, 0>> >>

Opening3 ==
    << <<4, 4>>, <<2, 0>>, <<2, 3>>, <<1, 1>>, <<2, 1>>,
       <<0, 1>>, <<3, 2>>, <<1, 0>>, <<4, 3>>, <<2, 4>>,
       <<4, 2>>, <<3, 1>>, <<4, 0>>, <<3, 4>>, <<1, 3>>,
       <<4, 1>>, <<0, 0>>, <<3, 3>>, <<0, 2>>, <<0, 4>>,
       <<3, 0>>, <<2, 2>>, <<0, 3>>, <<1, 4>>, <<1, 2>> >>

Opening4 ==
    << <<2, 0>>, <<3, 0>>, <<3, 3>>, <<0, 2>>, <<4, 3>>,
       <<4, 2>>, <<1, 3>>, <<2, 2>>, <<1, 2>>, <<2, 1>>,
       <<0, 1>>, <<0, 0>>, <<3, 2>>, <<0, 4>>, <<0, 3>>,
       <<1, 0>>, <<2, 4>>, <<4, 0>>, <<1, 4>>, <<3, 4>>,
       <<4, 1>>, <<2, 3>>, <<1, 1>>, <<3, 1>>, <<4, 4>> >>

Opening5 ==
    << <<1, 0>>, <<1, 1>>, <<4, 2>>, <<4, 0>>, <<2, 3>>,
       <<2, 0>>, <<0, 1>>, <<3, 3>>, <<1, 3>>, <<0, 3>>,
       <<4, 1>>, <<1, 4>>, <<4, 3>>, <<2, 1>>, <<2, 2>>,
       <<0, 2>>, <<3, 1>>, <<3, 4>>, <<3, 2>>, <<1, 2>>,
       <<4, 4>>, <<3, 0>>, <<2, 4>>, <<0, 4>>, <<0, 0>> >>

Opening6 ==
    << <<3, 0>>, <<0, 0>>, <<0, 4>>, <<3, 3>>, <<4, 2>>,
       <<1, 1>>, <<1, 0>>, <<0, 3>>, <<0, 1>>, <<1, 3>>,
       <<1, 2>>, <<4, 1>>, <<4, 0>>, <<3, 2>>, <<2, 0>>,
       <<1, 4>>, <<2, 4>>, <<3, 1>>, <<4, 3>>, <<2, 2>>,
       <<4, 4>>, <<3, 4>>, <<2, 3>>, <<2, 1>>, <<0, 2>> >>

Opening7 ==
    << <<3, 2>>, <<1, 1>>, <<4, 1>>, <<2, 0>>, <<4, 0>>,
       <<0, 2>>, <<1, 2>>, <<3, 0>>, <<0, 3>>, <<1, 3>>,
       <<2, 3>>, <<3, 1>>, <<3, 4>>, <<2, 2>>, <<2, 4>>,
       <<4, 4>>, <<1, 0>>, <<1, 4>>, <<0, 1>>, <<3, 3>>,
       <<0, 0>>, <<4, 2>>, <<4, 3>>, <<2, 1>>, <<0, 4>> >>

Opening8 ==
    << <<2, 3>>, <<1, 2>>, <<0, 2>>, <<2, 1>>, <<2, 0>>,
       <<1, 0>>, <<4, 1>>, <<1, 4>>, <<0, 1>>, <<2, 2>>,
       <<3, 3>>, <<3, 0>>, <<0, 0>>, <<4, 4>>, <<0, 4>>,
       <<4, 3>>, <<1, 3>>, <<1, 1>>, <<0, 3>>, <<4, 2>>,
       <<2, 4>>, <<3, 2>>, <<3, 4>>, <<4, 0>>, <<3, 1>> >>


Openings ==
    << Opening0, Opening1, Opening2, Opening3, Opening4,
       Opening5, Opening6, Opening7, Opening8 >>

\* How many of the openings are played, and how many moves a game makes in
\* the Movement phase.
NumOpenings == 8

MaxMoves == 4

\* The cells capture_piece is called on.
CaptureCells == { <<0, 0>>, <<0, 1>>, <<2, 2>>, <<4, 4>> }

OutOfRange == <<5, 0>>

\* The endpoints of the move_piece calls tried besides the legal moves.
ProbeFrom == { <<0, 0>>, <<2, 2>>, OutOfRange }

ProbeTo == { <<0, 1>>, <<1, 1>>, <<2, 2>>, <<2, 4>> }

PlacedSeq(b) ==
    LET places == SelectSeq(b.game_record, LAMBDA a : a.type = "Place")
    IN [i \in 1 .. Len(places) |-> places[i].pos]

MovesMade(b) ==
    Len(SelectSeq(b.game_record, LAMBDA a : a.type = "Move"))

PlaceInputs(b) ==
    IF b.phase = "Placement"
    THEN LET placed == PlacedSeq(b)
             n == Len(placed)
         IN { Openings[k][n + 1] :
                k \in { j \in 1 .. Min(NumOpenings, Len(Openings)) :
                          SubSeq(Openings[j], 1, n) = placed } }
            \cup SeqRange(SubSeq(placed, 1, Min(n, 1)))
            \cup { OutOfRange }
    ELSE { <<0, 0>> }

CaptureInputs(b) ==
    IF b.phase = "Capture" THEN CaptureCells \cup { OutOfRange } ELSE { <<0, 0>> }

LegalMoves(b) ==
    { m \in Cells \X Cells :
        /\ b.grid[m[1]] = b.current_player
        /\ m[2] \in Neighbors(m[1])
        /\ b.grid[m[2]] = Empty }

MoveInputs(b) ==
    IF b.phase = "Movement"
    THEN IF MovesMade(b) < MaxMoves
         THEN LegalMoves(b) \cup (ProbeFrom \X ProbeTo)
         ELSE {}
    ELSE { << <<0, 0>>, <<0, 1>> >> }

-----------------------------------------------------------------------------
(* The state machine *)

PlaceCall(pos) == [op |-> "place_piece", args |-> <<pos>>]

CaptureCall(pos) == [op |-> "capture_piece", args |-> <<pos>>]

MoveCall(from, to) == [op |-> "move_piece", args |-> <<from, to>>]

\* The call `call` made on Board b: the Board after it and what it returns.
Apply(b, call) ==
    CASE call.op = "place_piece" ->
           place_piece(b, call.args[1][1], call.args[1][2])
      [] call.op = "capture_piece" ->
           capture_piece(b, call.args[1][1], call.args[1][2])
      [] call.op = "move_piece" ->
           move_piece(b, call.args[1], call.args[2])

Returned(call, o) ==
    /\ board' = o.b
    /\ last' = [op |-> call.op, args |-> call.args, res |-> o.res]

Do(call) == Returned(call, Apply(board, call))

NoCall == [op |-> "new", args |-> << >>, res |-> Ok(0)]

PlaceCmd == \E pos \in PlaceInputs(board) : Do(PlaceCall(pos))

CaptureCmd == \E pos \in CaptureInputs(board) : Do(CaptureCall(pos))

MoveCmd == \E m \in MoveInputs(board) : Do(MoveCall(m[1], m[2]))

\* BoardAI before recommend_move is called: nothing searched, nothing
\* advised.
NoAdvice ==
    [ pc |-> "idle", moves |-> << >>, board_clone |-> << >>, expired |-> FALSE,
      workers |-> << >>, best_move |-> "None", best_score |-> i32_MIN,
      holder |-> 0, order |-> << >>, rollouts |-> 0, advice |-> "None",
      step |-> 0, game |-> 1 ]

\* One Board, driven through its three commands.
Init ==
    /\ board \in { NewBoard(h) : h \in Player }
    /\ last = NoCall
    /\ replayer = NewReplayer("Black")
    /\ twin = [board |-> NewBoard("Black"), res |-> Ok(0)]
    /\ ai = NoAdvice

Place == PlaceCmd /\ UNCHANGED <<replayer, twin, ai>>

Capture == CaptureCmd /\ UNCHANGED <<replayer, twin, ai>>

Move == MoveCmd /\ UNCHANGED <<replayer, twin, ai>>

Next == Place \/ Capture \/ Move

Spec == Init /\ [][Next]_vars

\* The Board and a GameReplayer over its game_record.  The replayer reads
\* the record as it grows: the record is only ever appended to, so the
\* replayer's state after k steps is the one it has after k steps over the
\* final record.  The game goes on when the replayer has caught up.
ReplayCaughtUp == replayer.current_step = Len(board.game_record)

InitReplay ==
    /\ board \in { NewBoard(h) : h \in Player }
    /\ last = NoCall
    /\ replayer \in { NewReplayer(h) : h \in Player }
    /\ twin = [board |-> NewBoard("Black"), res |-> Ok(0)]
    /\ ai = NoAdvice

ReplayPlace == ReplayCaughtUp /\ PlaceCmd /\ UNCHANGED <<replayer, twin, ai>>

ReplayCapture == ReplayCaughtUp /\ CaptureCmd /\ UNCHANGED <<replayer, twin, ai>>

ReplayMove == ReplayCaughtUp /\ MoveCmd /\ UNCHANGED <<replayer, twin, ai>>

StepForward ==
    /\ ~ReplayCaughtUp
    /\ replayer' = step_forward(replayer, board.game_record)
    /\ UNCHANGED <<board, last, twin, ai>>

NextReplay == ReplayPlace \/ ReplayCapture \/ ReplayMove \/ StepForward

SpecReplay == InitReplay /\ [][NextReplay]_vars

\* Two Boards made by Board::new and given the same calls.
InitTwin ==
    /\ board \in { NewBoard(h) : h \in Player }
    /\ last = NoCall
    /\ replayer = NewReplayer("Black")
    /\ twin \in { [board |-> NewBoard(h), res |-> Ok(0)] : h \in Player }
    /\ ai = NoAdvice

TwinReturned(o) == twin' = [board |-> o.b, res |-> o.res]

TwinFollows ==
    TwinReturned(Apply(twin.board, [op |-> last'.op, args |-> last'.args]))

TwinPlace == PlaceCmd /\ TwinFollows /\ UNCHANGED <<replayer, ai>>

TwinCapture == CaptureCmd /\ TwinFollows /\ UNCHANGED <<replayer, ai>>

TwinMove == MoveCmd /\ TwinFollows /\ UNCHANGED <<replayer, ai>>

NextTwin == TwinPlace \/ TwinCapture \/ TwinMove

SpecTwin == InitTwin /\ [][NextTwin]_vars

-----------------------------------------------------------------------------
(* BoardAI::recommend_move on a Board of each phase *)

\* The calls of a game that is advised on: the placements of Opening6, a
\* capture and two moves.
AdvisedGame ==
    [i \in 1 .. 25 |-> PlaceCall(Opening6[i])]
    \o << CaptureCall(<<0, 1>>),
          MoveCall(<<1, 1>>, <<0, 1>>), MoveCall(<<1, 0>>, <<1, 1>>) >>

\* The numbers of calls of AdvisedGame after which advice is asked for: in
\* the Placement, the Capture and the Movement phase.
AdvisedAfter == { 5, 25, 28 }

\* The games that are advised on, each with the order its map of capture
\* counts is read in and the numbers of calls after which advice is asked
\* for.  The first is AdvisedGame.  The second ends in the Movement phase
\* with four Black stones left, the third in the Movement phase with one
\* empty cell, the fourth in the Capture phase after two captures.
AdvisedGames ==
    << [ hash_last |-> "White", calls |-> AdvisedGame, asked |-> AdvisedAfter ],
       [ hash_last |-> "White",
         calls |-> [i \in 1 .. 25 |-> PlaceCall(Opening6[i])]
                   \o << CaptureCall(<<0, 1>>),
                         MoveCall(<<0, 2>>, <<0, 1>>),
                         MoveCall(<<1, 2>>, <<0, 2>>),
                         MoveCall(<<1, 3>>, <<1, 2>>) >>,
         asked |-> { 29 } ],
       [ hash_last |-> "Black",
         calls |-> [i \in 1 .. 25 |-> PlaceCall(Opening1[i])]
                   \o << CaptureCall(<<4, 4>>),
                         MoveCall(<<4, 3>>, <<4, 4>>),
                         MoveCall(<<3, 3>>, <<4, 3>>),
                         MoveCall(<<3, 4>>, <<3, 3>>) >>,
         asked |-> { 29 } ],
       [ hash_last |-> "White",
         calls |-> [i \in 1 .. 25 |->
                      PlaceCall(<<
            <<1, 2>>, <<0, 3>>, <<1, 3>>, <<0, 4>>, <<2, 3>>,
            <<1, 4>>, <<2, 2>>, <<0, 2>>, <<2, 4>>, <<1, 1>>,
            <<3, 4>>, <<2, 1>>, <<0, 1>>, <<1, 0>>, <<3, 3>>,
            <<3, 2>>, <<4, 4>>, <<4, 3>>, <<4, 2>>, <<4, 1>>,
            <<3, 1>>, <<0, 0>>, <<2, 0>>, <<3, 0>>, <<4, 0>> >>[i])]
                   \o << CaptureCall(<<3, 2>>), CaptureCall(<<0, 3>>) >>,
         asked |-> { 27 } ] >>

\* The rollouts all workers together get done before the deadline.
MaxRollouts == 3

\* One worker of monte_carlo_search per candidate move.  `rollout` keeps
\* the winner the worker's latest rollout found and the plies it played,
\* `iterations` counts the iterations of its loop.
NewWorker(mv) ==
    [ mv |-> mv, pc |-> "loop", total_score |-> 0, simulations |-> 0,
      locks |-> 0, rollout |-> [ winner |-> "None", depth |-> 0 ],
      iterations |-> 0 ]

\* sim_move that moves on board_clone itself, not on a copy of it.
sim_move_in_place(board_clone, mv) ==
    [ board_clone |-> move_piece(board_clone, mv[1], mv[2]).b,
      sim |-> move_piece(board_clone, mv[1], mv[2]) ]

\* let mut sim_board = board_clone.clone(); sim_board.move_piece(mv.0, mv.1):
\* the worker's board_clone as the call leaves it, and the copy moved on
\* with the result of the move.
sim_move(board_clone, mv) ==
    [ board_clone |-> board_clone,
      sim |-> move_piece(board_clone, mv[1], mv[2]) ]

\* What one iteration of the worker's loop adds to total_score and to
\* simulations: a score of the rollout if the move returned Ok, nothing
\* otherwise (no rollout is made then: `rollout` names no winner).
iteration(sim) ==
    IF sim.res.ok
    THEN { [score |-> x.score, n |-> 1, rollout |-> x] :
             x \in simulate_random_game(sim.b) }
    ELSE { [score |-> 0, n |-> 0, rollout |-> RolloutEnd(0, "None", 0)] }

\* A loop that a worker may leave before the deadline.
loop_ended_early(expired) == TRUE

\* A loop that a worker never leaves.
loop_never_ended(expired) == FALSE

\* start_time.elapsed() < time_limit has become false.
loop_ended(expired) == expired

\* if avg_score > lock.1
better(avg_score, best_score) == avg_score > best_score

InitAdvisor ==
    /\ \E g \in DOMAIN AdvisedGames :
         /\ board = NewBoard(AdvisedGames[g].hash_last)
         /\ ai = [NoAdvice EXCEPT !.game = g]
    /\ last = NoCall
    /\ replayer = NewReplayer("Black")
    /\ twin = [board |-> NewBoard("Black"), res |-> Ok(0)]

\* The loop of main reads the next command of the game; it asks for advice
\* before each of them.
AdvisedCall ==
    /\ ai.pc = "idle"
    /\ ai.step < Len(AdvisedGames[ai.game].calls)
    /\ Do(AdvisedGames[ai.game].calls[ai.step + 1])
    /\ ai' = [ai EXCEPT !.step = @ + 1]
    /\ UNCHANGED <<replayer, twin>>

Advised(kind, cells) ==
    /\ \E pos \in cells :
         ai' = [ai EXCEPT !.pc = "done",
                          !.advice = [kind |-> kind, pos |-> pos]]
    /\ UNCHANGED <<board, last, replayer, twin>>

RecommendPlacement ==
    /\ ai.pc = "idle"
    /\ ai.step \in AdvisedGames[ai.game].asked
    /\ board.phase = "Placement"
    /\ Advised("Placement", recommend_placement(board))

RecommendCapture ==
    /\ ai.pc = "idle"
    /\ ai.step \in AdvisedGames[ai.game].asked
    /\ board.phase = "Capture"
    /\ Advised("Capture", { recommend_capture(board) })

\* recommend_movement up to the spawning of the workers.
StartSearch ==
    /\ ai.pc = "idle"
    /\ ai.step \in AdvisedGames[ai.game].asked
    /\ board.phase = "Movement"
    /\ ai' = [ai EXCEPT
                !.pc = "search",
                !.moves = generate_possible_moves(board),
                !.board_clone = board,
                !.workers = [w \in 1 .. Len(generate_possible_moves(board)) |->
                               NewWorker(generate_possible_moves(board)[w])]]
    /\ UNCHANGED <<board, last, replayer, twin>>

Iterated(w, sm) ==
    \E it \in iteration(sm.sim) :
        ai' = [ai EXCEPT !.board_clone = sm.board_clone,
                         !.workers[w].total_score = @ + it.score,
                         !.workers[w].simulations = @ + it.n,
                         !.workers[w].rollout =
                             [ winner |-> it.rollout.winner,
                               depth |-> it.rollout.depth ],
                         !.workers[w].iterations = @ + 1,
                         !.rollouts = @ + 1]

\* One iteration of a worker's while loop, entered before the deadline.
Rollout ==
    /\ ai.pc = "search"
    /\ ~ai.expired
    /\ ai.rollouts < MaxRollouts
    /\ \E w \in DOMAIN ai.workers :
         /\ ai.workers[w].pc = "loop"
         /\ Iterated(w, sim_move(ai.board_clone, ai.workers[w].mv))
    /\ UNCHANGED <<board, last, replayer, twin>>

\* time_limit has elapsed since start_time.
DeadlinePasses ==
    /\ ai.pc = "search"
    /\ ~ai.expired
    /\ ai' = [ai EXCEPT !.expired = TRUE]
    /\ UNCHANGED <<board, last, replayer, twin>>

\* A worker finds the loop condition false: it goes on to report if it
\* completed a rollout, and ends otherwise.
LeaveLoop ==
    /\ ai.pc = "search"
    /\ \E w \in DOMAIN ai.workers :
         /\ ai.workers[w].pc = "loop"
         /\ loop_ended(ai.expired)
         /\ ai' = [ai EXCEPT !.workers[w].pc =
                       IF ai.workers[w].simulations > 0 THEN "lock" ELSE "done"]
    /\ UNCHANGED <<board, last, replayer, twin>>

\* moves_ref.lock(): granted when no worker holds the mutex.
Acquire ==
    /\ ai.pc = "search"
    /\ ai.holder = 0
    /\ \E w \in DOMAIN ai.workers :
         /\ ai.workers[w].pc = "lock"
         /\ ai' = [ai EXCEPT !.holder = w,
                             !.order = Append(@, w),
                             !.workers[w].pc = "locked",
                             !.workers[w].locks = @ + 1]
    /\ UNCHANGED <<board, last, replayer, twin>>

Reported(w, avg_score) ==
    ai' = [ai EXCEPT
             !.best_score = IF better(avg_score, @) THEN avg_score ELSE @,
             !.best_move = IF better(avg_score, ai.best_score)
                           THEN ai.workers[w].mv ELSE @,
             !.holder = 0,
             !.workers[w].pc = "done"]

\* The holder of the mutex compares, writes and drops the guard.
Report ==
    /\ ai.pc = "search"
    /\ \E w \in DOMAIN ai.workers :
         /\ ai.workers[w].pc = "locked"
         /\ ai.holder = w
         /\ Reported(w, i32_div(ai.workers[w].total_score,
                                ai.workers[w].simulations))
    /\ UNCHANGED <<board, last, replayer, twin>>

AllFinished ==
    /\ ai.pc = "search"
    /\ \A w \in DOMAIN ai.workers : ai.workers[w].pc = "done"

\* thread::scope has joined the workers; recommend_movement formats the
\* move of the register, (0,0) -> (0,0) if it holds none.
ReturnMove ==
    /\ AllFinished
    /\ ai' = [ai EXCEPT
                !.pc = "done",
                !.advice = [kind |-> "Movement",
                            pos |-> IF ai.best_move = "None"
                                    THEN << <<0, 0>>, <<0, 0>> >>
                                    ELSE ai.best_move]]
    /\ UNCHANGED <<board, last, replayer, twin>>

NextAdvisor ==
    \/ AdvisedCall
    \/ RecommendPlacement
    \/ RecommendCapture
    \/ StartSearch
    \/ Rollout
    \/ DeadlinePasses
    \/ LeaveLoop
    \/ Acquire
    \/ Report
    \/ ReturnMove

SpecAdvisor == InitAdvisor /\ [][NextAdvisor]_vars

\* The workers are threads of the operating system and the lock is a Mutex:
\* a worker that can leave its loop, take the free lock or report does so,
\* and thread::scope returns once all workers have ended.
FairAdvisor ==
    /\ SpecAdvisor
    /\ WF_vars(LeaveLoop)
    /\ WF_vars(Acquire)
    /\ WF_vars(Report)
    /\ WF_vars(ReturnMove)

-----------------------------------------------------------------------------
(* Properties *)

\* The entries the step appends to game_record.
NewEntries ==
    SubSeq(board'.game_record, Len(board.game_record) + 1,
           Len(board'.game_record))

Pending(b) == MapSum(b.capture_remaining)

\* The stones of `player` that the other player may take.
Targets(b, player) == player_pieces(b, player) \ b.reward_pieces[player]

TriggeredSet(b, family) ==
    CASE family = "Square" -> b.triggered_squares
      [] family = "Tri" -> b.triggered_tris
      [] family = "Tetra" -> b.triggered_tetras
      [] family = "Row" -> b.triggered_rows
      [] family = "Col" -> b.triggered_cols
      [] family = "Dragon" -> b.triggered_dragons

PatternCells(family, id) ==
    CASE family = "Square" -> SquareCells(id[1], id[2])
      [] family = "Tri" -> TriCells(id)
      [] family = "Tetra" -> TetraCells(id)
      [] family = "Row" -> RowCells(id)
      [] family = "Col" -> ColCells(id)
      [] family = "Dragon" -> DragonCells(id)

Families == { "Square", "Tri", "Tetra", "Row", "Col", "Dragon" }

\* The step is a move_piece call that moved a stone.
Moved ==
    /\ last'.op = "move_piece"
    /\ Len(board'.game_record) > Len(board.game_record)

\* The step is a move_piece call whose capture count is positive: it logged
\* a Reward entry.
MoveRewarded ==
    /\ Moved
    /\ \E i \in 1 .. Len(NewEntries) : NewEntries[i].type = "Reward"

\* The step is a capture_piece call that returned Ok.
Captured ==
    /\ last'.op = "capture_piece"
    /\ last'.res.ok
    /\ Len(board'.game_record) > Len(board.game_record)

\* C1: a command that returns an error leaves the Board as it was before
\* the call.
C1_FailedCommandLeavesBoard ==
    [][(~last'.res.ok) => board' = board]_vars

\* C2: once the replayer has stepped through the whole game_record, its
\* board has the grid and the phase of the game that was recorded.
C2_ReplayRoundTrip ==
    ReplayCaughtUp =>
        /\ replayer.board.grid = board.grid
        /\ replayer.board.phase = board.phase

\* C3: two Boards made by Board::new and given the same calls return the
\* same results and have the same grid, phase, current_player and
\* capture_remaining.
C3_Deterministic ==
    /\ twin.res = last.res
    /\ twin.board.grid = board.grid
    /\ twin.board.phase = board.phase
    /\ twin.board.current_player = board.current_player
    /\ twin.board.capture_remaining = board.capture_remaining

\* C4: a pattern that is already in a triggered set is never granted again,
\* and the patterns a move is rewarded for contain the cell moved to.
C4_AntiRepeat ==
    [][\A i \in 1 .. Len(NewEntries) :
         NewEntries[i].type = "Reward" =>
           /\ NewEntries[i].id \notin TriggeredSet(board, NewEntries[i].family)
           /\ Moved => last'.args[2] \in
                         PatternCells(NewEntries[i].family, NewEntries[i].id)]_vars

\* C5: no step removes an id from any of the six triggered sets.
C5_TriggeredAppendOnly ==
    [][\A family \in Families :
         TriggeredSet(board, family) \subseteq TriggeredSet(board', family)]_vars

\* C6: a move with a positive capture count removes no stone of the
\* opponent; it leaves the phase at Capture with capture_turn the mover, and
\* returns the mover's capture_remaining, which is positive.
C6_RewardedMoveEntersCapture ==
    [][MoveRewarded =>
         /\ player_pieces(board', opponent(board.current_player))
              = player_pieces(board, opponent(board.current_player))
         /\ board'.phase = "Capture"
         /\ board'.capture_turn = board.current_player
         /\ last'.res.ok
         /\ last'.res.val = MapGet(board'.capture_remaining, board.current_player)
         /\ last'.res.val > 0]_vars

\* C7: after a capture that leaves captures pending, the capturer is still
\* to act if it has captures left; otherwise the turn goes to the opponent
\* only if the opponent has captures left and a stone to take, and an
\* opponent with no stone to take has its count set to 0.
C7_CaptureTurnPolicy ==
    [][(Captured /\ Pending(board') > 0) =>
         IF MapGet(board'.capture_remaining, board.current_player) > 0
         THEN board'.current_player = board.current_player
         ELSE /\ board'.current_player = opponent(board.current_player) =>
                   /\ MapGet(board'.capture_remaining,
                             opponent(board.current_player)) > 0
                   /\ Targets(board', board.current_player) # {}
              /\ Targets(board', board.current_player) = {} =>
                   MapGet(board'.capture_remaining,
                          opponent(board.current_player)) = 0]_vars

\* C8: in the Capture phase some capture is pending.
C8_CaptureHasPending ==
    board.phase = "Capture" => Pending(board) > 0

\* A player with captures pending and a stone of the opponent to take.
CanCapture(b, player) ==
    /\ MapGet(b.capture_remaining, player) > 0
    /\ Targets(b, opponent(player)) # {}

\* C9: when the placement that fills the board has entered the Capture
\* phase and some player can capture, current_player can capture.
C9_FirstCapturerCanCapture ==
    (/\ board.phase = "Capture"
     /\ last.op = "place_piece"
     /\ last.res.ok
     /\ \E p \in Player : CanCapture(board, p))
    => CanCapture(board, board.current_player)

\* C10: a step taken in the Capture phase does not increase the sum of
\* capture_remaining, and it brings the sum to 0 exactly if it takes the
\* phase to Movement.
C10_PendingDecreasesToMovement ==
    [][board.phase = "Capture" =>
         /\ Pending(board') <= Pending(board)
         /\ (Pending(board) > 0 /\ Pending(board') = 0)
              <=> (board'.phase = "Movement")]_vars

\* The capture that took the last pending capture has just been made.
C10_Witness ==
    /\ board.phase = "Movement"
    /\ last.op = "capture_piece"
    /\ last.res.ok
    /\ Pending(board) = 0

\* Some stone of `player` has an empty orthogonal neighbour.
HasDestination(b, player) ==
    \E pos \in player_pieces(b, player) :
        \E q \in Neighbors(pos) : b.grid[q] = Empty

\* The step is a capture_piece call that removed a stone.
CaptureMade ==
    /\ last'.op = "capture_piece"
    /\ Len(board'.game_record) > Len(board.game_record)

\* C11: a capture that leaves the opponent without a legal move is reported
\* by capture_piece as a win of the capturing player.
C11_StuckCaptureWins ==
    [][(CaptureMade /\ ~HasDestination(board', opponent(board.current_player)))
         => reported_winner(last'.res, board.current_player)
              = board.current_player]_vars

\* C12: after a move with capture count 0, if the opponent has no cell to
\* move to, the move and check_winner name the mover as the winner;
\* otherwise the turn passes to the opponent.
C12_UnrewardedMoveOutcome ==
    [][(Moved /\ ~MoveRewarded) =>
         IF HasDestination(board', opponent(board.current_player))
         THEN board'.current_player = opponent(board.current_player)
         ELSE /\ reported_winner(last'.res, board.current_player)
                   = board.current_player
              /\ check_winner(board') = board.current_player]_vars

\* C13: when the board fills with no capture pending, the Movement phase
\* begins with White to move; when the last pending capture is made, the
\* Movement phase begins with the player who made it to move.
C13_FirstMoverFollowsOrigin ==
    [][/\ (board.phase = "Placement" /\ is_full(board') /\ Pending(board') = 0)
           => (board'.phase = "Movement" /\ board'.current_player = "White")
       /\ (board.phase = "Capture" /\ board'.phase = "Movement")
           => board'.current_player = board.current_player]_vars

\* The cells of the triggered patterns that `player` fully occupies.
ProtectedCells(b, player) ==
    UNION { PatternCells(family, id) :
              <<family, id>> \in
                { x \in UNION { { <<f, i>> : i \in TriggeredSet(b, f) } :
                                  f \in Families } :
                    AllOccupiedBy(b.grid, PatternCells(x[1], x[2]), player) } }

\* C14: after every command that returned Ok, reward_pieces of each player
\* is the set of cells of the triggered patterns that player fully occupies.
C14_RewardPiecesConsistent ==
    last.res.ok =>
        \A p \in Player : board.reward_pieces[p] = ProtectedCells(board, p)

\* A capture_piece call on `pos` that must be refused: outside the Capture
\* phase, by a player with nothing pending, on a cell off the board, on an
\* empty cell, on the caller's own stone or on a protected cell.
CaptureRefusable(b, pos) ==
    \/ b.phase # "Capture"
    \/ MapGet(b.capture_remaining, b.current_player) = 0
    \/ pos \notin Cells
    \/ b.grid[pos] = Empty
    \/ b.grid[pos] = b.current_player
    \/ pos \in b.reward_pieces[opponent(b.current_player)]

\* C15: capture_piece refuses such a call with an error and changes no
\* field of the Board.
C15_CaptureRejects ==
    [][(last'.op = "capture_piece" /\ CaptureRefusable(board, last'.args[1]))
         => (~last'.res.ok /\ board' = board)]_vars

\* A capture of a protected stone has just been refused in the Capture
\* phase, from a player with a capture pending.
C15_Witness ==
    /\ last.op = "capture_piece"
    /\ ~last.res.ok
    /\ board.phase = "Capture"
    /\ MapGet(board.capture_remaining, board.current_player) > 0
    /\ last.args[1] \in board.reward_pieces[opponent(board.current_player)]

\* C16: a capture_piece call that returns Ok empties the target cell and no
\* other, appends one Capture entry of the capturer and the cell, and takes
\* 1 from the capturer's capture_remaining.
C16_CaptureEffect ==
    [][Captured =>
         /\ board.grid[last'.args[1]] # Empty
         /\ board'.grid = [board.grid EXCEPT ![last'.args[1]] = Empty]
         /\ NewEntries = << CaptureAct(board.current_player, last'.args[1]) >>
         /\ board'.capture_remaining[board.current_player]
              = board.capture_remaining[board.current_player] - 1]_vars

\* A capture has just been made and more are pending.
C16_Witness ==
    /\ last.op = "capture_piece"
    /\ last.res.ok
    /\ board.phase = "Capture"
    /\ Pending(board) > 0

\* A place_piece call on `pos` that may succeed.
PlaceAllowed(b, pos) ==
    /\ b.phase = "Placement"
    /\ pos \in Cells
    /\ b.grid[pos] = Empty

\* C17: place_piece returns Ok exactly when the phase is Placement and the
\* cell is on the board and empty; otherwise it returns an error and leaves
\* the grid, current_player and extra_moves as they were.
C17_PlacePreconditions ==
    [][last'.op = "place_piece" =>
         /\ last'.res.ok <=> PlaceAllowed(board, last'.args[1])
         /\ ~PlaceAllowed(board, last'.args[1]) =>
              /\ board'.grid = board.grid
              /\ board'.current_player = board.current_player
              /\ board'.extra_moves = board.extra_moves]_vars

\* A placement on an occupied cell has just been refused.
C17_Witness ==
    /\ last.op = "place_piece"
    /\ ~last.res.ok
    /\ board.phase = "Placement"
    /\ last.args[1] \in Cells
    /\ board.grid[last.args[1]] # Empty

\* A move_piece call from `from` to `to` that may relocate a stone.
MoveAllowed(b, from, to) ==
    /\ b.phase = "Movement"
    /\ from \in Cells /\ to \in Cells
    /\ b.grid[from] = b.current_player
    /\ b.grid[to] = Empty
    /\ abs_diff(from[1], to[1]) + abs_diff(from[2], to[2]) = 1

\* C18: move_piece changes the grid only when the phase is Movement, `from`
\* holds a stone of current_player, `to` is empty and at Manhattan distance 1
\* from `from`; any other call is refused with an error.
C18_MovePreconditions ==
    [][(last'.op = "move_piece"
          /\ ~MoveAllowed(board, last'.args[1], last'.args[2]))
         => (~last'.res.ok /\ board'.grid = board.grid)]_vars

\* A diagonal move of an own stone to an empty cell has just been refused.
C18_Witness ==
    /\ last.op = "move_piece"
    /\ ~last.res.ok
    /\ board.phase = "Movement"
    /\ last.args[1] \in Cells /\ last.args[2] \in Cells
    /\ board.grid[last.args[1]] = board.current_player
    /\ board.grid[last.args[2]] = Empty
    /\ abs_diff(last.args[1][1], last.args[2][1]) = 1
    /\ abs_diff(last.args[1][2], last.args[2][2]) = 1

\* The step is a place_piece call that returned Ok.
Placed == last'.op = "place_piece" /\ last'.res.ok

\* The turn rule of Placement: with the bonus just earned added, a positive
\* extra_moves loses 1 and the player stays; at 0 the turn passes.
TurnRule ==
    IF board.extra_moves + last'.res.val > 0
    THEN /\ board'.extra_moves = board.extra_moves + last'.res.val - 1
         /\ board'.current_player = board.current_player
    ELSE /\ board'.extra_moves = 0
         /\ board'.current_player = opponent(board.current_player)

\* C19 as stated: every place_piece call that returns Ok follows the turn
\* rule.
C19_TurnRuleEveryPlacement == [][Placed => TurnRule]_vars

\* C19: a place_piece call that returns Ok and leaves the phase at Placement
\* follows the turn rule; so between two Placement states current_player
\* changes only when extra_moves is 0.
C19_TurnRuleWithinPlacement ==
    [][(Placed /\ board'.phase = "Placement") => TurnRule]_vars

\* A placement has just earned a bonus and its player is still to place.
C19_Witness ==
    /\ last.op = "place_piece"
    /\ last.res.ok
    /\ last.res.val > 0
    /\ board.phase = "Placement"
    /\ board.game_record[Len(board.game_record)].player = board.current_player

FamilyIds(family) ==
    CASE family = "Square" -> SquareAnchors
      [] family = "Tri" -> TriIds
      [] family = "Tetra" -> TetraIds
      [] family = "Row" -> Coord
      [] family = "Col" -> Coord
      [] family = "Dragon" -> DragonIds

Weight(family) == IF family \in { "Row", "Col", "Dragon" } THEN 2 ELSE 1

\* The patterns of `family` that `player` fully occupies after the step and
\* that were in no triggered set before it.
NewlyCompleted(family, player) ==
    { id \in FamilyIds(family) :
        /\ id \notin TriggeredSet(board, family)
        /\ AllOccupiedBy(board'.grid, PatternCells(family, id), player) }

NewlyCompletedValue(player) ==
    Weight("Square") * Cardinality(NewlyCompleted("Square", player))
    + Weight("Tri") * Cardinality(NewlyCompleted("Tri", player))
    + Weight("Tetra") * Cardinality(NewlyCompleted("Tetra", player))
    + Weight("Row") * Cardinality(NewlyCompleted("Row", player))
    + Weight("Col") * Cardinality(NewlyCompleted("Col", player))
    + Weight("Dragon") * Cardinality(NewlyCompleted("Dragon", player))

\* C20: the bonus a place_piece call returns is the value of the patterns
\* the placing player newly completes (1 per square, tri and tetra, 2 per
\* row, column and dragon), and each of them is in its triggered set
\* afterwards, so that no later placement is rewarded for it again.
C20_PlacementBonus ==
    [][Placed =>
         /\ last'.res.val = NewlyCompletedValue(board.current_player)
         /\ \A family \in Families :
              NewlyCompleted(family, board.current_player)
                \subseteq TriggeredSet(board', family)]_vars

\* A placement has just completed a square, and nothing else, for a bonus
\* of 1.
C20_Witness ==
    /\ last.op = "place_piece"
    /\ last.res.ok
    /\ last.res.val = 1
    /\ Len(board.game_record) >= 2
    /\ board.game_record[Len(board.game_record)].type = "Reward"
    /\ board.game_record[Len(board.game_record)].family = "Square"
    /\ board.game_record[Len(board.game_record) - 1].type = "Place"

\* C21: a Board in the Placement phase has an empty cell; the phase leaves
\* Placement only by the place_piece call that occupies the last empty cell,
\* and that call does leave it.
C21_PlacementEndsWhenFull ==
    /\ [](board.phase = "Placement" => ~is_full(board))
    /\ [][/\ (Placed /\ is_full(board')) => board'.phase # "Placement"
          /\ (board.phase = "Placement" /\ board'.phase # "Placement")
               => (Placed /\ is_full(board'))]_vars

\* The placement on the 25th cell has just been made.
C21_Witness ==
    /\ last.op = "place_piece"
    /\ last.res.ok
    /\ is_full(board)
    /\ board.phase # "Placement"
    /\ Len(SelectSeq(board.game_record, LAMBDA a : a.type = "Place")) = 25


\* C22: no step brings the phase back to Placement, and a step changes the
\* phase only from Placement to Capture by place_piece, from Capture to
\* Movement by capture_piece, from Movement to Capture by move_piece, or
\* from Placement to Movement by a place_piece that leaves no capture
\* pending.
C22_PhaseOrder ==
    [][/\ board'.phase = "Placement" => board.phase = "Placement"
       /\ board'.phase # board.phase =>
            \/ /\ board.phase = "Placement" /\ board'.phase = "Capture"
               /\ last'.op = "place_piece"
            \/ /\ board.phase = "Placement" /\ board'.phase = "Movement"
               /\ last'.op = "place_piece"
               /\ Pending(board') = 0
            \/ /\ board.phase = "Capture" /\ board'.phase = "Movement"
               /\ last'.op = "capture_piece"
            \/ /\ board.phase = "Movement" /\ board'.phase = "Capture"
               /\ last'.op = "move_piece"]_vars

\* The phase has gone from Placement to Capture and on to Movement, and a
\* stone has been moved there.
C22_Witness ==
    /\ board.phase = "Movement"
    /\ last.op = "move_piece"
    /\ last.res.ok
    /\ \E i \in 1 .. Len(board.game_record) :
           board.game_record[i].type = "Capture"

\* C23: has_legal_moves(player) is true exactly when the player has at
\* least 3 stones and one of them has an empty cell of the board next to it,
\* above, below, left or right; so it is false for a player with fewer than
\* 3 stones, whatever cells are empty.
C23_HasLegalMoves ==
    \A p \in Player :
        has_legal_moves(board, p)
          <=> /\ Cardinality(player_pieces(board, p)) >= 3
              /\ HasDestination(board, p)

\* One player has 3 stones or more, one of them on the edge of the board,
\* and can move; the other has fewer than 3 stones, with an empty cell next
\* to one of them, and cannot.
C23_Witness ==
    \E p \in Player :
        /\ has_legal_moves(board, p)
        /\ \E pos \in player_pieces(board, p) : pos[1] = 0 \/ pos[2] = 0
        /\ Cardinality(player_pieces(board, opponent(p))) < 3
        /\ HasDestination(board, opponent(p))
        /\ ~has_legal_moves(board, opponent(p))

\* C24: in the Capture and Movement phases check_winner returns the opponent
\* of every player who has fewer than 3 stones on the grid; in the Placement
\* phase it returns None.
C24_WinnerByStoneCount ==
    IF board.phase = "Placement"
    THEN check_winner(board) = "None"
    ELSE \A p \in Player :
             Cardinality(player_pieces(board, p)) < 3
               => check_winner(board) = opponent(p)

\* After the Placement phase a player is down to fewer than 3 stones.
C24_Witness ==
    /\ board.phase # "Placement"
    /\ \E p \in Player : Cardinality(player_pieces(board, p)) < 3

\* The anchors is_square is called with on Board b: those of the loops over
\* 0..4 x 0..4, the members of triggered_squares, and the candidates of
\* check_squares, for any cell placed on, that pass its test r < 4 && c < 4.
SquareCallAnchors(b) ==
    SquareAnchors
    \cup b.triggered_squares
    \cup UNION { { a \in SeqRange(SquareCandidates(pos[1], pos[2])) :
                     a[1] < 4 /\ a[2] < 4 } : pos \in Cells }

\* C25: for each of the 16 anchors (r, c) and each player, is_square is true
\* exactly when the cells (r, c), (r, c + 1), (r + 1, c) and (r + 1, c + 1)
\* all hold a stone of that player; and every anchor is_square is called
\* with has r <= 3 and c <= 3, so that the four cells are on the board.
C25_IsSquare ==
    /\ \A a \in SquareAnchors : \A p \in Player :
         is_square(board, a[1], a[2], p)
           <=> /\ board.grid[<<a[1], a[2]>>] = p
               /\ board.grid[<<a[1], a[2] + 1>>] = p
               /\ board.grid[<<a[1] + 1, a[2]>>] = p
               /\ board.grid[<<a[1] + 1, a[2] + 1>>] = p
    /\ \A a \in SquareCallAnchors(board) :
         /\ a[1] <= 3 /\ a[2] <= 3
         /\ SquareCells(a[1], a[2]) \subseteq Cells

\* A placement on the last row or the last column has just completed a
\* square whose anchor has r = 3 or c = 3.
C25_Witness ==
    /\ last.op = "place_piece"
    /\ last.res.val > 0
    /\ board.phase = "Placement"
    /\ last.args[1][1] = 4 \/ last.args[1][2] = 4
    /\ \E a \in board.triggered_squares :
         /\ a[1] = 3 \/ a[2] = 3
         /\ last.args[1] \in SquareCells(a[1], a[2])
         /\ \E p \in Player : is_square(board, a[1], a[2], p)

\* The patterns of `family` whose cells all hold stones of `player`.
Owned(b, family, player) ==
    { id \in FamilyIds(family) :
        AllOccupiedBy(b.grid, PatternCells(family, id), player) }

OwnedValue(b, player) ==
    Weight("Square") * Cardinality(Owned(b, "Square", player))
    + Weight("Tri") * Cardinality(Owned(b, "Tri", player))
    + Weight("Tetra") * Cardinality(Owned(b, "Tetra", player))
    + Weight("Row") * Cardinality(Owned(b, "Row", player))
    + Weight("Col") * Cardinality(Owned(b, "Col", player))
    + Weight("Dragon") * Cardinality(Owned(b, "Dragon", player))

\* The placement that filled the board has just entered the Capture phase.
CaptureEntered ==
    /\ last.op = "place_piece"
    /\ last.res.ok
    /\ board.phase = "Capture"

\* C26: when the Capture phase is entered from Placement, each triggered set
\* holds exactly the patterns of its family that one player fully occupies,
\* and capture_remaining of each player is the value of the patterns that
\* player fully occupies: 1 per square, tri and tetra, 2 per row, column and
\* dragon.
C26_CaptureQuota ==
    CaptureEntered =>
        /\ \A family \in Families :
             TriggeredSet(board, family)
               = Owned(board, family, "Black") \cup Owned(board, family, "White")
        /\ DOMAIN board.capture_remaining = Player
        /\ \A p \in Player : board.capture_remaining[p] = OwnedValue(board, p)

\* The Capture phase has just been entered with a player owed captures for
\* a square, tri or tetra and for a row, column or dragon.
C26_Witness ==
    /\ CaptureEntered
    /\ \E p \in Player : MapGet(board.capture_remaining, p) > 2
    /\ \E family \in { "Square", "Tri", "Tetra" } :
         TriggeredSet(board, family) # {}
    /\ \E family \in { "Row", "Col", "Dragon" } :
         TriggeredSet(board, family) # {}

\* C27: every step leaves the game_record it found as a prefix of the new
\* one; a place_piece call that returns Ok appends a Place entry of the
\* placing player and the cell, and a move_piece call that returns Ok
\* appends a Move entry of the moving player, from and to.
C27_RecordAppendOnly ==
    [][/\ Len(board'.game_record) >= Len(board.game_record)
       /\ SubSeq(board'.game_record, 1, Len(board.game_record))
            = board.game_record
       /\ Placed =>
            /\ NewEntries # << >>
            /\ NewEntries[1] = PlaceAct(board.current_player, last'.args[1])
       /\ (last'.op = "move_piece" /\ last'.res.ok) =>
            /\ NewEntries # << >>
            /\ NewEntries[1]
                 = MoveAct(board.current_player, last'.args[1], last'.args[2])]_vars

\* A move has just returned Ok, and the record holds it after the
\* placements and captures made before.
C27_Witness ==
    /\ last.op = "move_piece"
    /\ last.res.ok
    /\ Len(board.game_record) > 26
    /\ board.game_record[1].type = "Place"
    /\ \E i \in 26 .. Len(board.game_record) :
         board.game_record[i]
           = MoveAct(opponent(board.current_player), last.args[1], last.args[2])

\* C28: no step of recommend_move, of its workers or of their rollouts
\* changes the Board the advice is asked for, in whatever phase it is; and
\* the clone the workers share stays equal to that Board, each worker moving
\* on a copy of its own.
C28_AdvisorLeavesBoard ==
    /\ [][ai'.pc # "idle" => board' = board]_vars
    /\ [](ai.pc = "search" => ai.board_clone = board)

\* A search of the Movement phase has returned a move after rollouts of
\* both workers.
C28_Witness ==
    /\ ai.pc = "done"
    /\ board.phase = "Movement"
    /\ ai.advice.kind = "Movement"
    /\ ai.advice.pos = ai.best_move
    /\ \A w \in DOMAIN ai.workers : ai.workers[w].simulations > 0

\* The workers that reported to the register.
Reporters == { w \in DOMAIN ai.workers : ai.workers[w].locks > 0 }

\* The place of worker w in the order in which the lock was acquired.
LockRank(w) == CHOOSE i \in 1 .. Len(ai.order) : ai.order[i] = w

\* The mean score of worker v is at most that of worker w.
MeanAtMost(v, w) ==
    ai.workers[v].total_score * ai.workers[w].simulations
      <= ai.workers[w].total_score * ai.workers[v].simulations

C30_LockOnceAfterDeadline ==
    [][ai.pc = "search" =>
         /\ \A w \in DOMAIN ai.workers :
              /\ ai'.workers[w].locks <= 1
              /\ ai'.workers[w].locks > ai.workers[w].locks
                   => (ai.expired /\ ai.workers[w].pc = "lock")
              /\ ai'.workers[w].pc = "loop" => ai'.holder # w
         /\ <<ai'.best_move, ai'.best_score>> # <<ai.best_move, ai.best_score>>
              => /\ ai.holder \in DOMAIN ai.workers
                 /\ ai.workers[ai.holder].pc = "locked"
                 /\ ai'.workers[ai.holder].pc = "done"]_vars

\* A worker that made two rollouts has reported once and ended, while the
\* other worker has not yet left its loop.
C30_Witness ==
    /\ ai.pc = "search"
    /\ \E w \in DOMAIN ai.workers :
         /\ ai.workers[w].simulations = 2
         /\ ai.workers[w].locks = 1
         /\ ai.workers[w].pc = "done"
    /\ \E v \in DOMAIN ai.workers : ai.workers[v].pc = "loop"


\* C31: a rollout that found a winner adds 100 to the worker's total if the
\* winner is the player to move on the Board the advisor was given, the
\* player whose candidate move the worker evaluates, and -100 if the winner
\* is the opponent of that player.
C31_RolloutScoresForMover ==
    [][\A w \in DOMAIN ai.workers :
          (/\ ai'.pc = "search"
           /\ ai'.workers[w].simulations = ai.workers[w].simulations + 1
           /\ ai'.workers[w].rollout.winner # "None")
            => ai'.workers[w].total_score - ai.workers[w].total_score =
                 IF ai'.workers[w].rollout.winner = ai.board_clone.current_player
                 THEN 100 ELSE -100]_vars

\* A cell that holds a stone of the opponent of current_player outside the
\* opponent's reward_pieces.
CaptureTarget(b, pos) ==
    /\ b.grid[pos] = opponent(b.current_player)
    /\ pos \notin b.reward_pieces[opponent(b.current_player)]

\* C32: the cell advised in the Capture phase is a capture target of
\* current_player, and no capture target scores higher than it.
C32_CaptureAdviceIsBestTarget ==
    (ai.pc = "done" /\ ai.advice.kind = "Capture") =>
        /\ CaptureTarget(board, ai.advice.pos)
        /\ \A pos \in Cells :
             CaptureTarget(board, pos) =>
                 evaluate_capture(pos) <= evaluate_capture(ai.advice.pos)


\* C33: a rollout plays at most max_depth plies, fewer when it found a
\* winner; a worker reports at most once; and a search whose deadline has
\* passed returns.
C33_RolloutAndSearchTerminate ==
    /\ [](ai.pc = "search" =>
            \A w \in DOMAIN ai.workers :
                /\ ai.workers[w].rollout.depth <= max_depth
                /\ ai.workers[w].rollout.winner # "None" =>
                       ai.workers[w].rollout.depth < max_depth
                /\ ai.workers[w].locks <= 1)
    /\ ((ai.pc = "search" /\ ai.expired) ~> (ai.pc = "done"))

C33_Witness ==
    /\ ai.pc = "done"
    /\ ai.expired
    /\ \E w \in DOMAIN ai.workers :
         /\ ai.workers[w].locks = 1
         /\ ai.workers[w].rollout.winner # "None"
         /\ ai.workers[w].rollout.depth < max_depth


\* C34: the placement that fills the board leaves capture_turn and
\* current_player at the player who made it.
C34_LastPlacerCapturesFirst ==
    [][(Placed /\ board'.phase = "Capture") =>
          /\ board'.capture_turn = board.current_player
          /\ board'.current_player = board.current_player]_vars


\* C35: in every state of the Capture phase some capture_piece call returns
\* Ok.
C35_CaptureCanProceed ==
    board.phase = "Capture" =>
        \E pos \in Cells : capture_piece(board, pos[1], pos[2]).res.ok


\* C36: in the Capture phase the cells of every pattern that one player
\* fully occupies are in that player's reward_pieces, and a step taken in
\* the Capture phase leaves every such pattern fully occupied by that
\* player.
C36_PatternsSurviveCapture ==
    /\ [](board.phase = "Capture" =>
            \A f \in Families : \A p \in Player : \A id \in Owned(board, f, p) :
                PatternCells(f, id) \subseteq board.reward_pieces[p])
    /\ [][board.phase = "Capture" =>
            \A f \in Families : \A p \in Player :
                Owned(board, f, p) \subseteq Owned(board', f, p)]_vars

\* A capture has been made in the Capture phase from a player who fully
\* occupies a pattern.
C36_Witness ==
    /\ last.op = "capture_piece"
    /\ last.res.ok
    /\ board.game_record[Len(board.game_record)].type = "Capture"
    /\ \E f \in Families :
         Owned(board, f,
               opponent(board.game_record[Len(board.game_record)].player)) # {}


\* C37: a move_piece call empties no cell of a pattern that the opponent of
\* the mover fully occupies.
C37_MoveSparesOwnedPatterns ==
    [][Moved =>
          \A f \in Families :
              Owned(board, f, opponent(board.current_player))
                \subseteq Owned(board', f, opponent(board.current_player))]_vars


\* The Reward entries of game_record for the pattern `id` of `family`.
RewardsFor(b, family, id) ==
    SelectSeq(b.game_record,
              LAMBDA a : a.type = "Reward" /\ a.family = family /\ a.id = id)

\* C38: in the Placement phase a pattern is in its triggered set exactly if
\* one player occupies all of its cells; game_record then holds exactly one
\* Reward entry for it, which names that player, and holds none for a
\* pattern that is in no triggered set.
C38_TriggeredIffOwnedOnce ==
    board.phase = "Placement" =>
        \A f \in Families : \A id \in FamilyIds(f) :
            /\ id \in TriggeredSet(board, f)
                 <=> \E p \in Player : id \in Owned(board, f, p)
            /\ Len(RewardsFor(board, f, id))
                 = IF id \in TriggeredSet(board, f) THEN 1 ELSE 0
            /\ id \in TriggeredSet(board, f) =>
                 id \in Owned(board, f, RewardsFor(board, f, id)[1].player)

\* Placement goes on with a square and a pattern of another family
\* triggered.
C38_Witness ==
    /\ board.phase = "Placement"
    /\ board.triggered_squares # {}
    /\ \E f \in Families \ { "Square" } : TriggeredSet(board, f) # {}


\* C39: a worker that has run an iteration of its loop has completed a
\* rollout, and has reported once it has ended; and when some worker has run
\* an iteration, the move the search returns is one of the candidate moves.
C39_NoCandidateDropped ==
    /\ ai.pc = "search" =>
         \A w \in DOMAIN ai.workers :
             /\ ai.workers[w].iterations > 0 => ai.workers[w].simulations > 0
             /\ (ai.workers[w].iterations > 0 /\ ai.workers[w].pc = "done")
                  => ai.workers[w].locks = 1
    /\ (/\ ai.pc = "done"
        /\ ai.advice.kind = "Movement"
        /\ \E w \in DOMAIN ai.workers : ai.workers[w].iterations > 0)
         => ai.advice.pos \in SeqRange(ai.moves)

=============================================================================
